---- MODULE Spec2Model ----
(***************************************************************************)
(* State-machine model of flow3.py: the node registry, the connection      *)
(* list, the per-node relation lists and the recursive evaluation of the   *)
(* flow.  One action per event handler of the program.                     *)
(*                                                                         *)
(* Left out: canvas geometry and colours.  A node's position only decides  *)
(* which node get_node_at returns for a mouse position, and drag can put   *)
(* any node anywhere, so the action that completes a connection takes the  *)
(* node found (or no node) as its input.  selected_node and                *)
(* dragging_connection are written but never read by the graph logic.      *)
(***************************************************************************)
EXTENDS Integers, Sequences, FiniteSets, TLC

\* Bounds of the model: the Node objects ever created, the connections ever
\* made, and the nodes whose value or code is ever set in a dialog.
MaxNodes == 3
MaxConnects == 3
MaxEvalConnects == 2
MaxEdited == 1
\* Bounds of the flows that are built and run without deletions.
MaxFlowNodes == 4
MaxFlowConnects == 4
MaxFlowEdited == 2
MaxFlowKind == [INPUT |-> 2, LOGIC |-> 2, OUTPUT |-> 1]

\* Node types (flow3.py 26-28) and data types (flow3.py 31-35).
NODE_INPUT == "INPUT"
NODE_OUTPUT == "OUTPUT"
NODE_LOGIC == "LOGIC"
NodeTypes == {NODE_INPUT, NODE_LOGIC, NODE_OUTPUT}
DataType == {"Integer", "Float", "Text", "Boolean"}

\* Python values.  A float is kept by its (whole) numeric value: the texts the
\* model types into the value dialog carry no fraction.
NoneV == [t |-> "None", v |-> 0]
IntV(n) == [t |-> "int", v |-> n]
FloatV(n) == [t |-> "float", v |-> n]
StrV(s) == [t |-> "str", v |-> s]
BoolV(b) == [t |-> "bool", v |-> b]

\* No node: what get_node_at returns when no node is under the point.
NoNode == 0

VARIABLES
  nodes,          \* global list `nodes`: the registry, in creation order
  connections,    \* global list `connections`: records [start, end]
  node_type,      \* Node.node_type of every Node object ever created
  data_type,      \* Node.data_type
  value,          \* Node.value
  custom_code,    \* Node.custom_code (None for a node that is not LOGIC)
  inputs,         \* Node.inputs: list of upstream Node objects
  outputs,        \* Node.outputs: list of downstream Node objects
  text,           \* the text shown by the node's canvas text item
  lines,          \* the connection lines drawn on the canvas: [start, end]
  last,           \* the handler that ran last and how it ended
  dialogs,        \* the message boxes the last handler showed, in order
  computed        \* the Node.compute calls the last handler made, in call order

vars == <<nodes, connections, node_type, data_type, value, custom_code,
          inputs, outputs, text, lines, last, dialogs, computed>>

\* Every Node object ever constructed (deleted ones stay referenced).
Objs == DOMAIN node_type
\* The nodes in the registry.
Registry == {nodes[i] : i \in 1..Len(nodes)}

InSeq(x, s) == \E i \in 1..Len(s) : s[i] = x
Count(x, s) == Cardinality({i \in 1..Len(s) : s[i] = x})

RECURSIVE SumLen(_, _)
SumLen(f, i) == IF i > Len(f) THEN 0 ELSE Len(f[i]) + SumLen(f, i + 1)
\* The connections made so far: relation lists only ever grow, by one entry
\* on each side per connection made.
Connects == SumLen(outputs, 1)
\* The nodes whose dialog was saved so far: saving replaces the node's text.
Edited == {n \in Objs : node_type[n] \in {"INPUT", "LOGIC"} /\ text[n] # node_type[n]}
CanEdit(n) == n \in Edited \/ Cardinality(Edited) < MaxEdited
CanEditFlow(n) == n \in Edited \/ Cardinality(Edited) < MaxFlowEdited

\* list.remove(x): drops the first occurrence of x.
RemoveFirst(s, x) ==
  LET i == CHOOSE k \in 1..Len(s) : s[k] = x /\ \A j \in 1..(k - 1) : s[j] # x
  IN SubSeq(s, 1, i - 1) \o SubSeq(s, i + 1, Len(s))

----------------------------------------------------------------------------
\* Python string methods used by the handlers.

Whitespace == {" ", "\n", "\t"}
Digits == {"0", "1", "2", "3", "4", "5", "6", "7", "8", "9"}
DigitVal(c) == CASE c = "0" -> 0 [] c = "1" -> 1 [] c = "2" -> 2 [] c = "3" -> 3
                 [] c = "4" -> 4 [] c = "5" -> 5 [] c = "6" -> 6 [] c = "7" -> 7
                 [] c = "8" -> 8 [] c = "9" -> 9

RECURSIVE LStrip(_)
LStrip(s) == IF s = "" THEN ""
             ELSE IF Head(s) \in Whitespace THEN LStrip(Tail(s)) ELSE s
RECURSIVE RStrip(_)
RStrip(s) == IF s = "" THEN ""
             ELSE IF SubSeq(s, Len(s), Len(s)) \in Whitespace
                  THEN RStrip(SubSeq(s, 1, Len(s) - 1)) ELSE s
\* str.strip()
Strip(s) == RStrip(LStrip(s))

UpperCase == <<"A", "B", "C", "D", "E", "F", "G", "H", "I", "J", "K", "L", "M",
               "N", "O", "P", "Q", "R", "S", "T", "U", "V", "W", "X", "Y", "Z">>
LowerCase == <<"a", "b", "c", "d", "e", "f", "g", "h", "i", "j", "k", "l", "m",
               "n", "o", "p", "q", "r", "s", "t", "u", "v", "w", "x", "y", "z">>
LowerChar(c) == IF InSeq(c, UpperCase)
                THEN LowerCase[CHOOSE i \in 1..26 : UpperCase[i] = c] ELSE c
RECURSIVE Lower(_)
\* str.lower()
Lower(s) == IF s = "" THEN "" ELSE LowerChar(Head(s)) \o Lower(Tail(s))

AllDigits(s) == s # "" /\ \A i \in 1..Len(s) : SubSeq(s, i, i) \in Digits
RECURSIVE DigitsVal(_)
DigitsVal(s) == IF s = "" THEN 0
                ELSE 10 * DigitsVal(SubSeq(s, 1, Len(s) - 1))
                     + DigitVal(SubSeq(s, Len(s), Len(s)))
\* int(s) / float(s) on a text that holds no '.', 'e', '_', "inf" or "nan":
\* surrounding whitespace is dropped, one sign is allowed, the rest is digits.
\* [ok |-> FALSE] stands for ValueError.
ParseNumber(s) ==
  LET b == Strip(s)
      signed == b # "" /\ Head(b) \in {"+", "-"}
      d == IF signed THEN Tail(b) ELSE b
  IN IF AllDigits(d)
     THEN [ok |-> TRUE,
           n |-> IF signed /\ Head(b) = "-" THEN 0 - DigitsVal(d) ELSE DigitsVal(d)]
     ELSE [ok |-> FALSE, n |-> 0]

\* str(value), as an f-string renders it.
PyStr(v) == CASE v.t = "None" -> "None"
              [] v.t = "int" -> ToString(v.v)
              [] v.t = "float" -> ToString(v.v) \o ".0"
              [] v.t = "str" -> v.v
              [] v.t = "bool" -> IF v.v THEN "True" ELSE "False"

\* type(value).__name__, as a TypeError message names it.
PyTypeName(v) == IF v.t = "None" THEN "NoneType" ELSE v.t
\* The number a numeric value (int, float, bool) counts as in arithmetic.
NumOf(v) == IF v.t = "bool" THEN (IF v.v THEN 1 ELSE 0) ELSE v.v

----------------------------------------------------------------------------
\* Construction and the graph-editing handlers.

Init ==
  /\ nodes = <<>>
  /\ connections = <<>>
  /\ node_type = <<>>
  /\ data_type = <<>>
  /\ value = <<>>
  /\ custom_code = <<>>
  /\ inputs = <<>>
  /\ outputs = <<>>
  /\ text = <<>>
  /\ lines = <<>>
  /\ last = [op |-> "init", res |-> "ok"]
  /\ dialogs = <<>>
  /\ computed = <<>>

\* update_connections(): every line is deleted and one is drawn per entry of
\* `connections` (canvas ids and coordinates left out).
update_connections(conns) == conns

\* create_node(node_type) with Node.__init__: the new object gets a fresh id
\* (uuid4, here the next free index) and is appended to `nodes`.
create_node(kind) ==
  /\ LET self == Len(node_type) + 1 IN
       /\ node_type' = Append(node_type, kind)
       /\ data_type' = Append(data_type, "Float")
       /\ value' = Append(value, IF kind = NODE_INPUT THEN IntV(0) ELSE NoneV)
       /\ inputs' = Append(inputs, <<>>)
       /\ outputs' = Append(outputs, <<>>)
       /\ custom_code' = Append(custom_code, IF kind = NODE_LOGIC THEN StrV("") ELSE NoneV)
       /\ text' = Append(text, kind)
       /\ nodes' = Append(nodes, self)
       /\ last' = [op |-> "create_node", res |-> "ok"]
  /\ dialogs' = <<>>
  /\ computed' = <<>>
  /\ UNCHANGED <<connections, lines>>

\* validate_connection without its self-loop test.
validate_connection_noself(self, target_node) ==
  IF InSeq(target_node, outputs[self]) \/ InSeq(self, inputs[target_node])
  THEN [ok |-> FALSE, why |-> "duplicate", dialogs |-> <<>>]
  ELSE IF node_type[target_node] = NODE_OUTPUT /\ Len(inputs[target_node]) >= 1
  THEN [ok |-> FALSE, why |-> "output_full",
        dialogs |-> <<"Output node can have only 1 input">>]
  ELSE [ok |-> TRUE, why |-> "connected", dialogs |-> <<>>]

\* validate_connection without its duplicate test.
validate_connection_nodup(self, target_node) ==
  IF target_node = self
  THEN [ok |-> FALSE, why |-> "self", dialogs |-> <<>>]
  ELSE IF node_type[target_node] = NODE_OUTPUT /\ Len(inputs[target_node]) >= 1
  THEN [ok |-> FALSE, why |-> "output_full",
        dialogs |-> <<"Output node can have only 1 input">>]
  ELSE [ok |-> TRUE, why |-> "connected", dialogs |-> <<>>]

\* validate_connection with the output test off by one (> for >=).
validate_connection_fanin(self, target_node) ==
  IF target_node = self
  THEN [ok |-> FALSE, why |-> "self", dialogs |-> <<>>]
  ELSE IF InSeq(target_node, outputs[self]) \/ InSeq(self, inputs[target_node])
  THEN [ok |-> FALSE, why |-> "duplicate", dialogs |-> <<>>]
  ELSE IF node_type[target_node] = NODE_OUTPUT /\ Len(inputs[target_node]) > 1
  THEN [ok |-> FALSE, why |-> "output_full",
        dialogs |-> <<"Output node can have only 1 input">>]
  ELSE [ok |-> TRUE, why |-> "connected", dialogs |-> <<>>]

\* validate_connection with a test for a path of two connections from the
\* target back to self.
validate_connection_path2(self, target_node) ==
  IF target_node = self
  THEN [ok |-> FALSE, why |-> "self", dialogs |-> <<>>]
  ELSE IF InSeq(target_node, outputs[self]) \/ InSeq(self, inputs[target_node])
  THEN [ok |-> FALSE, why |-> "duplicate", dialogs |-> <<>>]
  ELSE IF \E b \in Objs : InSeq(b, outputs[target_node]) /\ InSeq(self, outputs[b])
  THEN [ok |-> FALSE, why |-> "cycle", dialogs |-> <<>>]
  ELSE IF node_type[target_node] = NODE_OUTPUT /\ Len(inputs[target_node]) >= 1
  THEN [ok |-> FALSE, why |-> "output_full",
        dialogs |-> <<"Output node can have only 1 input">>]
  ELSE [ok |-> TRUE, why |-> "connected", dialogs |-> <<>>]

\* Node.validate_connection(target_node): the verdict, the return taken and
\* the message box shown.
validate_connection(self, target_node) ==
  IF target_node = self
  THEN [ok |-> FALSE, why |-> "self", dialogs |-> <<>>]
  ELSE IF InSeq(target_node, outputs[self]) \/ InSeq(self, inputs[target_node])
  THEN [ok |-> FALSE, why |-> "duplicate", dialogs |-> <<>>]
  ELSE IF node_type[target_node] = NODE_OUTPUT /\ Len(inputs[target_node]) >= 1
  THEN [ok |-> FALSE, why |-> "output_full",
        dialogs |-> <<"Output node can have only 1 input">>]
  ELSE [ok |-> TRUE, why |-> "connected", dialogs |-> <<>>]

\* complete_connection that forgets target_node.inputs.append(self).
complete_connection_half(self, target_node) ==
  /\ self \in Registry
  /\ target_node \in Registry \cup {NoNode}
  /\ LET v == IF target_node = NoNode
              THEN [ok |-> FALSE, why |-> "no_target", dialogs |-> <<>>]
              ELSE validate_connection(self, target_node) IN
       /\ IF v.ok
          THEN /\ connections' = Append(connections, [start |-> self, end |-> target_node])
               /\ outputs' = [outputs EXCEPT ![self] = Append(@, target_node)]
               /\ inputs' = inputs
               /\ lines' = update_connections(connections')
          ELSE UNCHANGED <<connections, outputs, inputs, lines>>
       /\ last' = [op |-> "complete_connection", res |-> v.why]
       /\ dialogs' = v.dialogs
  /\ computed' = <<>>
  /\ UNCHANGED <<nodes, node_type, data_type, value, custom_code, text>>

\* Node.complete_connection(event): target_node is what get_node_at found
\* under the mouse (a registry node, or NoNode).
complete_connection(self, target_node) ==
  /\ self \in Registry
  /\ target_node \in Registry \cup {NoNode}
  /\ LET v == IF target_node = NoNode
              THEN [ok |-> FALSE, why |-> "no_target", dialogs |-> <<>>]
              ELSE validate_connection(self, target_node) IN
       /\ IF v.ok
          THEN /\ connections' = Append(connections, [start |-> self, end |-> target_node])
               /\ outputs' = [outputs EXCEPT ![self] = Append(@, target_node)]
               /\ inputs' = [inputs EXCEPT ![target_node] = Append(@, self)]
               /\ lines' = update_connections(connections')
          ELSE UNCHANGED <<connections, outputs, inputs, lines>>
       /\ last' = [op |-> "complete_connection", res |-> v.why]
       /\ dialogs' = v.dialogs
  /\ computed' = <<>>
  /\ UNCHANGED <<nodes, node_type, data_type, value, custom_code, text>>

\* delete_connection(event, conn)
delete_connection(conn) ==
  /\ conn \in [start : Objs, end : Objs]
  /\ IF InSeq(conn, connections)
     THEN /\ connections' = RemoveFirst(connections, conn)
          /\ lines' = update_connections(connections')
          /\ last' = [op |-> "delete_connection", res |-> "removed"]
     ELSE /\ UNCHANGED <<connections, lines>>
          /\ last' = [op |-> "delete_connection", res |-> "absent"]
  /\ dialogs' = <<>>
  /\ computed' = <<>>
  /\ UNCHANGED <<nodes, node_type, data_type, value, custom_code, inputs, outputs, text>>

\* delete_node without the membership test: nodes.remove(self) raises
\* ValueError for a node that is not in the list, before the lines are redrawn.
delete_node_unguarded(self) ==
  /\ self \in Objs
  /\ connections' = SelectSeq(connections, LAMBDA conn : conn.start # self /\ conn.end # self)
  /\ nodes' = IF InSeq(self, nodes) THEN RemoveFirst(nodes, self) ELSE nodes
  /\ lines' = IF InSeq(self, nodes) THEN update_connections(connections') ELSE lines
  /\ last' = [op |-> "delete_node", res |-> IF InSeq(self, nodes) THEN "removed" ELSE "ValueError"]
  /\ dialogs' = <<>>
  /\ computed' = <<>>
  /\ UNCHANGED <<node_type, data_type, value, custom_code, inputs, outputs, text>>

\* Node.delete_node()
delete_node(self) ==
  /\ self \in Objs
  /\ connections' = SelectSeq(connections, LAMBDA conn : conn.start # self /\ conn.end # self)
  /\ nodes' = IF InSeq(self, nodes) THEN RemoveFirst(nodes, self) ELSE nodes
  /\ lines' = update_connections(connections')
  /\ last' = [op |-> "delete_node", res |-> IF InSeq(self, nodes) THEN "removed" ELSE "absent"]
  /\ dialogs' = <<>>
  /\ computed' = <<>>
  /\ UNCHANGED <<node_type, data_type, value, custom_code, inputs, outputs, text>>

----------------------------------------------------------------------------
\* The dialogs that set an input node's value and a logic node's code.

\* What the user leaves in the code editor (a Tk text widget's content ends
\* with a newline), and the code texts that remain once stripped.
CodeDouble == "result = input_0 * 2"
CodeConst == "result = 5"
CodeNoResult == "x = 1"
CodeSub == "result = input_0 - input_1"
EditorTexts == {"\n", CodeDouble \o "\n", CodeConst \o "\n", "  " \o CodeNoResult \o "\n"}
\* The code texts typed into the nodes of the flows built without deletions.
FlowEditorTexts == {CodeDouble \o "\n", CodeSub \o "\n"}

\* What the user types into the value entry.
EntryTexts == {" 10 ", "abc", "Yes"}
\* The type chosen and the text typed for the inputs of the flows built
\* without deletions.
FlowDataTypes == {"Integer"}
FlowEntryTexts == {" 10 "}

\* save_code() of Node.open_code_editor
save_code(self, editor_text) ==
  /\ self \in Registry
  /\ node_type[self] = NODE_LOGIC
  /\ editor_text \in EditorTexts \cup FlowEditorTexts
  /\ custom_code' = [custom_code EXCEPT ![self] = StrV(Strip(editor_text))]
  /\ text' = [text EXCEPT ![self] = "Logic\n(Custom)"]
  /\ last' = [op |-> "save_code", res |-> "ok"]
  /\ dialogs' = <<>>
  /\ computed' = <<>>
  /\ UNCHANGED <<nodes, connections, node_type, data_type, value, inputs, outputs, lines>>

\* The conversion of save_input(): the value for the selected type, or ValueError.
coerce(selected_type, entry_text) ==
  LET input_value == Strip(entry_text)
      num == ParseNumber(input_value)
  IN CASE selected_type = "Integer" ->
            IF num.ok THEN [ok |-> TRUE, val |-> IntV(num.n)] ELSE [ok |-> FALSE, val |-> NoneV]
       [] selected_type = "Float" ->
            IF num.ok THEN [ok |-> TRUE, val |-> FloatV(num.n)] ELSE [ok |-> FALSE, val |-> NoneV]
       [] selected_type = "Text" -> [ok |-> TRUE, val |-> StrV(input_value)]
       [] selected_type = "Boolean" ->
            [ok |-> TRUE, val |-> BoolV(Lower(input_value) \in {"true", "1", "yes"})]

\* save_input that stores the selected type before it converts the text.
save_input_typefirst(self, selected_type, entry_text) ==
  /\ self \in Registry
  /\ node_type[self] = NODE_INPUT
  /\ selected_type \in DataType
  /\ entry_text \in EntryTexts \cup FlowEntryTexts
  /\ data_type' = [data_type EXCEPT ![self] = selected_type]
  /\ LET c == coerce(selected_type, entry_text) IN
       IF c.ok
       THEN /\ value' = [value EXCEPT ![self] = c.val]
            /\ text' = [text EXCEPT ![self] =
                          node_type[self] \o "\n" \o selected_type \o ": " \o PyStr(c.val)]
            /\ last' = [op |-> "save_input", res |-> "ok"]
            /\ dialogs' = <<>>
       ELSE /\ UNCHANGED <<value, text>>
            /\ last' = [op |-> "save_input", res |-> "ValueError"]
            /\ dialogs' = <<"Please enter a valid " \o selected_type \o " value">>
  /\ computed' = <<>>
  /\ UNCHANGED <<nodes, connections, node_type, custom_code, inputs, outputs, lines>>

\* save_input() of Node.set_value
save_input(self, selected_type, entry_text) ==
  /\ self \in Registry
  /\ node_type[self] = NODE_INPUT
  /\ selected_type \in DataType
  /\ entry_text \in EntryTexts \cup FlowEntryTexts
  /\ LET c == coerce(selected_type, entry_text) IN
       IF c.ok
       THEN /\ value' = [value EXCEPT ![self] = c.val]
            /\ data_type' = [data_type EXCEPT ![self] = selected_type]
            /\ text' = [text EXCEPT ![self] =
                          node_type[self] \o "\n" \o selected_type \o ": " \o PyStr(c.val)]
            /\ last' = [op |-> "save_input", res |-> "ok"]
            /\ dialogs' = <<>>
       ELSE /\ UNCHANGED <<value, data_type, text>>
            /\ last' = [op |-> "save_input", res |-> "ValueError"]
            /\ dialogs' = <<"Please enter a valid " \o selected_type \o " value">>
  /\ computed' = <<>>
  /\ UNCHANGED <<nodes, connections, node_type, custom_code, inputs, outputs, lines>>

----------------------------------------------------------------------------
\* Evaluation.

\* exec(custom_code, {}, namespace) for the code texts of the model, where
\* vals[i] is bound to input_<i-1>: the value of `result`, or the message
\* box shown when the code raises or binds no `result`.
exec(code, vals) ==
  CASE code = CodeConst -> [val |-> IntV(5), dialogs |-> <<>>]
    [] code = CodeNoResult ->
         [val |-> NoneV, dialogs |-> <<"No 'result' variable set in custom code">>]
    [] code = CodeSub ->
         IF Len(vals) < 2
         THEN [val |-> NoneV,
               dialogs |-> <<"Error in custom code: name 'input_" \o ToString(Len(vals))
                             \o "' is not defined">>]
         ELSE LET x == vals[1]
                  y == vals[2]
              IN IF x.t \in {"int", "float", "bool"} /\ y.t \in {"int", "float", "bool"}
                 THEN [val |-> IF "float" \in {x.t, y.t}
                               THEN FloatV(NumOf(x) - NumOf(y))
                               ELSE IntV(NumOf(x) - NumOf(y)),
                       dialogs |-> <<>>]
                 ELSE [val |-> NoneV,
                       dialogs |-> <<"Error in custom code: unsupported operand type(s) for -: '"
                                     \o PyTypeName(x) \o "' and '" \o PyTypeName(y) \o "'">>]
    [] code = CodeDouble ->
         IF Len(vals) = 0
         THEN [val |-> NoneV,
               dialogs |-> <<"Error in custom code: name 'input_0' is not defined">>]
         ELSE LET x == vals[1] IN
              CASE x.t = "int" -> [val |-> IntV(x.v * 2), dialogs |-> <<>>]
                [] x.t = "float" -> [val |-> FloatV(x.v * 2), dialogs |-> <<>>]
                [] x.t = "bool" -> [val |-> IntV(IF x.v THEN 2 ELSE 0), dialogs |-> <<>>]
                [] x.t = "str" -> [val |-> StrV(x.v \o x.v), dialogs |-> <<>>]
                [] x.t = "None" ->
                     [val |-> NoneV,
                      dialogs |-> <<"Error in custom code: unsupported operand type(s) for *: 'NoneType' and 'int'">>]

\* The interpreter's recursion limit: deeper than any chain of distinct nodes,
\* so it is hit exactly when compute re-enters a node (a cycle of relations).
RecursionLimit == MaxNodes + 1

RECURSIVE compute(_, _)
RECURSIVE compute_inputs(_, _, _)
\* The loop over self.inputs binding the values in reverse order.
compute_inputs_reversed(ins, i, depth) ==
  IF i > Len(ins)
  THEN [vals |-> <<>>, dialogs |-> <<>>, computed |-> <<>>, raised |-> FALSE]
  ELSE LET r == compute(ins[i], depth) IN
       IF r.raised
       THEN [vals |-> <<>>, dialogs |-> r.dialogs, computed |-> r.computed, raised |-> TRUE]
       ELSE LET rest == compute_inputs(ins, i + 1, depth) IN
            [vals |-> rest.vals \o <<r.val>>,
             dialogs |-> r.dialogs \o rest.dialogs,
             computed |-> r.computed \o rest.computed,
             raised |-> rest.raised]

\* The loop over self.inputs that skips a node computed earlier in the loop.
compute_inputs_memo(ins, i, depth) ==
  IF i > Len(ins)
  THEN [vals |-> <<>>, dialogs |-> <<>>, computed |-> <<>>, raised |-> FALSE]
  ELSE LET r == compute(ins[i], depth) IN
       IF r.raised
       THEN [vals |-> <<>>, dialogs |-> r.dialogs, computed |-> r.computed, raised |-> TRUE]
       ELSE LET rest == compute_inputs(ins, i + 1, depth) IN
            [vals |-> <<r.val>> \o rest.vals,
             dialogs |-> r.dialogs \o rest.dialogs,
             computed |-> r.computed
                          \o SelectSeq(rest.computed, LAMBDA n : ~InSeq(n, r.computed)),
             raised |-> rest.raised]

\* The loop of Node.compute over self.inputs from position i on: the values
\* bound so far, with the message boxes and compute calls of the upstream
\* computations; raised when one of them ended in RecursionError.
compute_inputs(ins, i, depth) ==
  IF i > Len(ins)
  THEN [vals |-> <<>>, dialogs |-> <<>>, computed |-> <<>>, raised |-> FALSE]
  ELSE LET r == compute(ins[i], depth) IN
       IF r.raised
       THEN [vals |-> <<>>, dialogs |-> r.dialogs, computed |-> r.computed, raised |-> TRUE]
       ELSE LET rest == compute_inputs(ins, i + 1, depth) IN
            [vals |-> <<r.val>> \o rest.vals,
             dialogs |-> r.dialogs \o rest.dialogs,
             computed |-> r.computed \o rest.computed,
             raised |-> rest.raised]

\* Node.compute() at call depth `depth`: the value returned, the message boxes
\* shown and the compute calls made, in order; raised when RecursionError
\* leaves the call.
compute(self, depth) ==
  IF depth > RecursionLimit
  THEN [val |-> NoneV, dialogs |-> <<>>, computed |-> <<>>, raised |-> TRUE]
  ELSE IF node_type[self] = NODE_INPUT
  THEN [val |-> value[self], dialogs |-> <<>>, computed |-> <<self>>, raised |-> FALSE]
  ELSE IF node_type[self] = NODE_LOGIC
  THEN IF custom_code[self] \in {NoneV, StrV("")}
       THEN [val |-> NoneV, dialogs |-> <<"No custom code defined for logic node">>,
             computed |-> <<self>>, raised |-> FALSE]
       ELSE LET up == compute_inputs(inputs[self], 1, depth + 1) IN
            IF up.raised
            THEN [val |-> NoneV, dialogs |-> up.dialogs,
                  computed |-> <<self>> \o up.computed, raised |-> TRUE]
            ELSE LET r == exec(custom_code[self].v, up.vals) IN
                 [val |-> r.val, dialogs |-> up.dialogs \o r.dialogs,
                  computed |-> <<self>> \o up.computed, raised |-> FALSE]
  ELSE IF inputs[self] = <<>>
       THEN [val |-> NoneV, dialogs |-> <<>>, computed |-> <<self>>, raised |-> FALSE]
       ELSE LET r == compute(inputs[self][1], depth + 1) IN
            [r EXCEPT !.computed = <<self>> \o @]

\* f"{result:.2f}" for a whole number.
Fixed2(n) == ToString(n) \o ".00"

\* The display text without the test for None.
display_text_plain(result) ==
  IF result.t \in {"int", "float", "bool"}
  THEN "OUTPUT\n" \o Fixed2(IF result.t = "bool" THEN (IF result.v THEN 1 ELSE 0) ELSE result.v)
  ELSE "OUTPUT\n" \o PyStr(result)

\* The display text execute_flow builds from a result.
display_text(result) ==
  IF result.t = "None" THEN "OUTPUT\nN/A"
  ELSE IF result.t \in {"int", "float", "bool"}
  THEN "OUTPUT\n" \o Fixed2(IF result.t = "bool" THEN (IF result.v THEN 1 ELSE 0) ELSE result.v)
  ELSE "OUTPUT\n" \o PyStr(result)

RECURSIVE run_outputs(_, _)
\* The loop over output_nodes taken from the last output to the first.
run_outputs_reversed(output_nodes, acc) ==
  IF output_nodes = <<>> THEN acc
  ELSE LET node == output_nodes[Len(output_nodes)]
           r == compute(node, 1)
       IN IF r.raised
          THEN [acc EXCEPT !.dialogs = @ \o r.dialogs, !.computed = @ \o r.computed,
                           !.raised = TRUE]
          ELSE run_outputs(SubSeq(output_nodes, 1, Len(output_nodes) - 1),
                 [acc EXCEPT !.text[node] = display_text(r.val),
                             !.dialogs = @ \o r.dialogs,
                             !.computed = @ \o r.computed])

\* The loop of execute_flow over output_nodes; acc carries the texts set, the
\* message boxes shown and the compute calls made so far.  A RecursionError
\* leaves the loop and the handler.
run_outputs(output_nodes, acc) ==
  IF output_nodes = <<>> THEN acc
  ELSE LET node == Head(output_nodes)
           r == compute(node, 1)
       IN IF r.raised
          THEN [acc EXCEPT !.dialogs = @ \o r.dialogs, !.computed = @ \o r.computed,
                           !.raised = TRUE]
          ELSE run_outputs(Tail(output_nodes),
                 [acc EXCEPT !.text[node] = display_text(r.val),
                             !.dialogs = @ \o r.dialogs,
                             !.computed = @ \o r.computed])

\* execute_flow that keeps each output's result in the node's value.
execute_flow_stores ==
  /\ LET output_nodes == SelectSeq(nodes, LAMBDA n : node_type[n] = NODE_OUTPUT) IN
       IF output_nodes = <<>>
       THEN /\ dialogs' = <<"No output nodes in the flow">>
            /\ last' = [op |-> "execute_flow", res |-> "warning"]
            /\ UNCHANGED <<text, computed, value>>
       ELSE LET run == run_outputs(output_nodes,
                         [text |-> text, dialogs |-> <<>>, computed |-> <<>>, raised |-> FALSE])
            IN /\ text' = run.text
               /\ dialogs' = run.dialogs
               /\ computed' = run.computed
               /\ value' = [n \in DOMAIN value |->
                              IF InSeq(n, output_nodes) THEN compute(n, 1).val ELSE value[n]]
               /\ last' = [op |-> "execute_flow", res |-> IF run.raised THEN "RecursionError" ELSE "done"]
  /\ UNCHANGED <<nodes, connections, node_type, data_type, custom_code,
                 inputs, outputs, lines>>

\* execute_flow that, finding no output node, computes every node before it
\* warns.
execute_flow_computes_all ==
  /\ LET output_nodes == SelectSeq(nodes, LAMBDA n : node_type[n] = NODE_OUTPUT) IN
       IF output_nodes = <<>>
       THEN /\ dialogs' = <<"No output nodes in the flow">>
            /\ last' = [op |-> "execute_flow", res |-> "warning"]
            /\ computed' = nodes
            /\ UNCHANGED text
       ELSE LET run == run_outputs(output_nodes,
                         [text |-> text, dialogs |-> <<>>, computed |-> <<>>, raised |-> FALSE])
            IN /\ text' = run.text
               /\ dialogs' = run.dialogs
               /\ computed' = run.computed
               /\ last' = [op |-> "execute_flow", res |-> IF run.raised THEN "RecursionError" ELSE "done"]
  /\ UNCHANGED <<nodes, connections, node_type, data_type, value, custom_code,
                 inputs, outputs, lines>>

\* execute_flow()
execute_flow ==
  /\ LET output_nodes == SelectSeq(nodes, LAMBDA n : node_type[n] = NODE_OUTPUT) IN
       IF output_nodes = <<>>
       THEN /\ dialogs' = <<"No output nodes in the flow">>
            /\ last' = [op |-> "execute_flow", res |-> "warning"]
            /\ UNCHANGED <<text, computed>>
       ELSE LET run == run_outputs(output_nodes,
                         [text |-> text, dialogs |-> <<>>, computed |-> <<>>, raised |-> FALSE])
            IN /\ text' = run.text
               /\ dialogs' = run.dialogs
               /\ computed' = run.computed
               /\ last' = [op |-> "execute_flow", res |-> IF run.raised THEN "RecursionError" ELSE "done"]
  /\ UNCHANGED <<nodes, connections, node_type, data_type, value, custom_code,
                 inputs, outputs, lines>>

----------------------------------------------------------------------------
\* The graph-editing handlers, for up to MaxNodes objects and MaxConnects
\* connections made, called with any connection and any node object (also
\* ones already removed).
NextGraph ==
  \/ \E kind \in NodeTypes : Len(node_type) < MaxNodes /\ create_node(kind)
  \/ \E self \in Registry, target_node \in Registry \cup {NoNode} :
       Connects < MaxConnects /\ complete_connection(self, target_node)
  \/ \E conn \in [start : Objs, end : Objs] : delete_connection(conn)
  \/ \E self \in Objs : delete_node(self)

SpecGraph == Init /\ [][NextGraph]_vars

\* Whether some output node displays a result of a run.
Displayed == \E o \in Objs : node_type[o] = NODE_OUTPUT /\ text[o] # NODE_OUTPUT

\* Every handler, for up to MaxNodes objects, MaxEvalConnects connections made
\* and MaxEdited nodes edited in a dialog, as the bound events deliver them:
\* a connection is deleted from its line on the canvas, a node from its own
\* context menu.  The graph is edited until a run first displays a result;
\* from then on the flow is only run again.
Next ==
  \/ /\ ~Displayed /\ Len(node_type) < MaxNodes
     /\ \E kind \in NodeTypes : create_node(kind)
  \/ /\ ~Displayed /\ Connects < MaxEvalConnects
     /\ \E self \in Registry, target_node \in Registry \cup {NoNode} :
          complete_connection(self, target_node)
  \/ /\ ~Displayed
     /\ \E i \in 1..Len(lines) : delete_connection(lines[i])
  \/ /\ ~Displayed
     /\ \E self \in Registry : delete_node(self)
  \/ /\ ~Displayed
     /\ \E self \in Registry :
          /\ node_type[self] = NODE_LOGIC /\ CanEdit(self)
          /\ \E editor_text \in EditorTexts : save_code(self, editor_text)
  \/ /\ ~Displayed
     /\ \E self \in Registry :
          /\ node_type[self] = NODE_INPUT /\ CanEdit(self)
          /\ \E selected_type \in DataType, entry_text \in EntryTexts :
               save_input(self, selected_type, entry_text)
  \/ execute_flow

Spec == Init /\ [][Next]_vars

\* Flows of up to MaxFlowNodes nodes, MaxFlowConnects connections and
\* MaxFlowEdited edited nodes, built without deleting anything and then run:
\* large enough for a logic node with two inputs and for a node that is
\* upstream of an output along two paths.
NextFlow ==
  \/ /\ ~Displayed /\ Len(node_type) < MaxFlowNodes
     /\ \E kind \in NodeTypes :
          Count(kind, node_type) < MaxFlowKind[kind] /\ create_node(kind)
  \/ /\ ~Displayed /\ Connects < MaxFlowConnects
     /\ \E self \in Registry, target_node \in Registry :
          self < target_node /\ complete_connection(self, target_node)
  \/ /\ ~Displayed
     /\ \E self \in Registry :
          /\ node_type[self] = NODE_LOGIC /\ CanEditFlow(self)
          /\ \E editor_text \in FlowEditorTexts : save_code(self, editor_text)
  \/ /\ ~Displayed
     /\ \E self \in Registry :
          /\ node_type[self] = NODE_INPUT /\ CanEditFlow(self)
          /\ \E selected_type \in FlowDataTypes, entry_text \in FlowEntryTexts :
               save_input(self, selected_type, entry_text)
  \/ execute_flow

SpecFlow == Init /\ [][NextFlow]_vars

\* The two dialogs alone, on up to MaxNodes nodes: every node's dialog is
\* saved any number of times, with every type and text.
NextDialogs ==
  \/ \E kind \in NodeTypes : Len(node_type) < MaxNodes /\ create_node(kind)
  \/ \E self \in Registry, editor_text \in EditorTexts : save_code(self, editor_text)
  \/ \E self \in Registry, selected_type \in DataType, entry_text \in EntryTexts :
       save_input(self, selected_type, entry_text)

SpecDialogs == Init /\ [][NextDialogs]_vars

----------------------------------------------------------------------------
\* Properties of the graph-editing handlers (checked under SpecGraph; the
\* other handlers leave nodes, connections, inputs and outputs unchanged).

Conn(s, t) == [start |-> s, end |-> t]

\* C1: in every reachable state, for all node objects source and target,
\* target is in source.outputs exactly when source is in target.inputs (and
\* as many times).
ConnectionSymmetry ==
  \A s \in Objs, t \in Objs : Count(t, outputs[s]) = Count(s, inputs[t])

\* C1 witness: a connection was made and then removed (by delete_connection
\* or with one of its nodes), and the relation lists still hold an entry.
ConnectionSymmetryWitness ==
  /\ last.op \in {"delete_connection", "delete_node"}
  /\ last.res = "removed"
  /\ Len(connections) < Connects
  /\ \E s \in Registry, t \in Registry : InSeq(t, outputs[s])

\* C2: delete_node(n) on a registered node removes exactly the connections
\* that touch n, keeps every other one, and leaves no node of the registry
\* with n in its inputs or outputs.
DeletionCascade ==
  [][\A n \in Registry :
       delete_node(n) =>
         /\ connections' =
              SelectSeq(connections, LAMBDA c : c.start # n /\ c.end # n)
         /\ \A m \in Registry' : ~InSeq(n, inputs'[m]) /\ ~InSeq(n, outputs'[m])]_vars

\* C3: delete_connection on a present connection (source, target) takes
\* target out of source.outputs and source out of target.inputs and changes
\* no other connection or relation list; on an absent one it changes nothing.
DisconnectRemovesRelation ==
  [][\A conn \in [start : Objs, end : Objs] :
       delete_connection(conn) =>
         IF InSeq(conn, connections)
         THEN /\ connections' = RemoveFirst(connections, conn)
              /\ ~InSeq(conn.end, outputs'[conn.start])
              /\ ~InSeq(conn.start, inputs'[conn.end])
              /\ \A n \in Objs \ {conn.start} : outputs'[n] = outputs[n]
              /\ \A n \in Objs \ {conn.end} : inputs'[n] = inputs[n]
         ELSE UNCHANGED <<connections, inputs, outputs>>]_vars

\* C4: in every reachable state a connection (source, target) is in the
\* connection list exactly when target is in source.outputs and source is in
\* target.inputs.
ConnectionViewsAgree ==
  \A s \in Registry, t \in Registry :
    /\ InSeq(Conn(s, t), connections) <=> InSeq(t, outputs[s])
    /\ InSeq(Conn(s, t), connections) <=> InSeq(s, inputs[t])

\* C5: in every reachable state every OUTPUT node has at most one entry in
\* its inputs.
OutputFanIn ==
  \A n \in Objs : node_type[n] = NODE_OUTPUT => Len(inputs[n]) <= 1

\* C5 witness: a connection into an OUTPUT node that already has its input
\* was just attempted and turned down.
OutputFanInWitness ==
  /\ last = [op |-> "complete_connection", res |-> "output_full"]
  /\ \E n \in Registry : node_type[n] = NODE_OUTPUT /\ Len(inputs[n]) = 1

\* C6: completing a connection for a pair whose connection is in the list is
\* turned down and leaves one edge for the pair: one entry in the connection
\* list, one in source.outputs, one in target.inputs.
NoDuplicateEdge ==
  [][\A s \in Registry, t \in Registry :
       (InSeq(Conn(s, t), connections) /\ complete_connection(s, t)) =>
         /\ last'.res = "duplicate"
         /\ Count(Conn(s, t), connections') = 1
         /\ Count(t, outputs'[s]) = 1
         /\ Count(s, inputs'[t]) = 1]_vars

\* C6 witness: a duplicate was just turned down in a graph from which no
\* connection was ever removed, so the pair's connection is still present.
NoDuplicateEdgeWitness ==
  /\ last = [op |-> "complete_connection", res |-> "duplicate"]
  /\ Len(connections) = Connects
  /\ Len(nodes) = Len(node_type)

\* C7: completing a connection from a node to itself is turned down and
\* changes neither the connection list nor any relation list.
NoSelfLoop ==
  [][\A n \in Registry :
       complete_connection(n, n) =>
         /\ last'.res = "self"
         /\ UNCHANGED <<connections, inputs, outputs, lines>>]_vars

\* C7 witness: a self-connection was just attempted in a graph that has
\* connections.
NoSelfLoopWitness ==
  /\ last = [op |-> "complete_connection", res |-> "self"]
  /\ Len(connections) >= 1

\* C8: no reachable graph holds both the connection A -> B and the
\* connection B -> A.
NoTwoCycle ==
  \A a \in Objs, b \in Objs :
    ~(InSeq(Conn(a, b), connections) /\ InSeq(Conn(b, a), connections))

----------------------------------------------------------------------------
\* Properties of evaluation (checked under Spec).

\* A computation that reported an error and returned None.
Failed(r) == r.val = NoneV /\ r.dialogs # <<>>

\* C9: in a run of the flow, a LOGIC node with code one of whose upstream
\* computations failed does not run its code: its compute returns no value
\* and reports that upstream failure and nothing else.
UpstreamFailurePropagates ==
  (last.op = "execute_flow" /\ last.res = "done") =>
    \A n \in Objs :
      (/\ InSeq(n, computed)
       /\ node_type[n] = NODE_LOGIC
       /\ custom_code[n] \notin {NoneV, StrV("")}) =>
        \A i \in 1..Len(inputs[n]) :
          (/\ Failed(compute(inputs[n][i], 1))
           /\ \A j \in 1..(i - 1) : compute(inputs[n][j], 1).dialogs = <<>>) =>
            /\ compute(n, 1).val = NoneV
            /\ compute(n, 1).dialogs = compute(inputs[n][i], 1).dialogs

\* C10: after a run of the flow every OUTPUT node of the registry was
\* computed; one whose computation met a failure shows the no-value form and
\* the failure was reported; every other one shows the value of its subgraph.
FailureIsolation ==
  (last.op = "execute_flow" /\ last.res = "done") =>
    \A o \in Registry :
      node_type[o] = NODE_OUTPUT =>
        LET r == compute(o, 1) IN
          /\ InSeq(o, computed)
          /\ r.dialogs # <<>> =>
               /\ text[o] = "OUTPUT\nN/A"
               /\ \A k \in 1..Len(r.dialogs) : InSeq(r.dialogs[k], dialogs)
          /\ r.dialogs = <<>> => text[o] = display_text(r.val)

----------------------------------------------------------------------------
\* Properties of flows with several inputs and paths (checked under SpecFlow).

\* The OUTPUT nodes of the registry that a run of the flow just displayed.
RanOutputs ==
  IF last.op = "execute_flow" /\ last.res = "done"
  THEN {o \in Registry : node_type[o] = NODE_OUTPUT}
  ELSE {}

\* Whether node n is an INPUT node holding a number.
NumericInput(n) == node_type[n] = NODE_INPUT /\ value[n].t \in {"int", "float"}

\* C11: after a run, an OUTPUT fed by a LOGIC node whose code is
\* `result = input_0 * 2` and whose first input is an INPUT holding the number
\* x displays 2x with two decimals (10 gives 20.00); one whose code is
\* `result = input_0 - input_1` and whose first two inputs, in connection
\* order, are INPUT nodes holding x and y displays x - y with two decimals.
EvaluationChain ==
  \A o \in RanOutputs :
    inputs[o] # <<>> =>
      LET l == inputs[o][1] IN
        node_type[l] = NODE_LOGIC =>
          /\ (/\ custom_code[l] = StrV(CodeDouble)
              /\ Len(inputs[l]) >= 1
              /\ NumericInput(inputs[l][1])) =>
               text[o] = "OUTPUT\n" \o ToString(2 * value[inputs[l][1]].v) \o ".00"
          /\ (/\ custom_code[l] = StrV(CodeSub)
              /\ Len(inputs[l]) >= 2
              /\ NumericInput(inputs[l][1])
              /\ NumericInput(inputs[l][2])) =>
               text[o] = "OUTPUT\n"
                         \o ToString(value[inputs[l][1]].v - value[inputs[l][2]].v) \o ".00"

\* C11 witness: a run displayed -10.00 for a LOGIC node that subtracts its
\* second input (holding 10) from its first (holding 0).
EvaluationChainWitness ==
  \E o \in RanOutputs :
    /\ text[o] = "OUTPUT\n-10.00"
    /\ Len(inputs[o]) = 1
    /\ LET l == inputs[o][1] IN
         /\ custom_code[l] = StrV(CodeSub)
         /\ Len(inputs[l]) = 2
         /\ value[inputs[l][1]] = IntV(0)
         /\ value[inputs[l][2]] = IntV(10)

\* The upstream nodes a node's compute calls compute on: every input of a
\* LOGIC node that has code, the first input of an OUTPUT node.
Upstream(n) ==
  IF node_type[n] = NODE_LOGIC /\ custom_code[n] \notin {NoneV, StrV("")} THEN inputs[n]
  ELSE IF node_type[n] = NODE_OUTPUT /\ inputs[n] # <<>> THEN <<inputs[n][1]>>
  ELSE <<>>

RECURSIVE UpstreamPaths(_, _, _)
RECURSIVE SumPaths(_, _, _)
\* The number of distinct upstream paths from node `from` to node n (the
\* path of no step included), along paths of at most `fuel` steps.
UpstreamPaths(from, n, fuel) ==
  (IF from = n THEN 1 ELSE 0)
  + (IF fuel = 0 THEN 0 ELSE SumPaths(Upstream(from), n, fuel - 1))
\* The sum of UpstreamPaths over the nodes of a list.
SumPaths(froms, n, fuel) ==
  IF froms = <<>> THEN 0
  ELSE UpstreamPaths(Head(froms), n, fuel) + SumPaths(Tail(froms), n, fuel)

\* C19: after a run, every node was computed once per upstream path that
\* leads to it from an OUTPUT node of the registry: a node that is upstream
\* of an output along p paths is in the run's compute calls p times.
NoMemoization ==
  (last.op = "execute_flow" /\ last.res = "done") =>
    \A n \in Objs :
      Count(n, computed)
        = SumPaths(SelectSeq(nodes, LAMBDA o : node_type[o] = NODE_OUTPUT), n, Len(node_type))

\* C19 witness: a run computed one node twice, the node being upstream of
\* the output along two paths.
NoMemoizationWitness ==
  /\ last = [op |-> "execute_flow", res |-> "done"]
  /\ \E n \in Objs, o \in RanOutputs :
       /\ Count(n, computed) = 2
       /\ UpstreamPaths(o, n, Len(node_type)) = 2

----------------------------------------------------------------------------
\* Properties of the run (checked under Spec) and of the value dialog
\* (checked under SpecDialogs).

\* C12: after a run, an OUTPUT whose computed value is a number shows it with
\* two decimals, one whose value is a text shows the text, and one whose value
\* is a boolean shows True or False.
ResultFormatting ==
  \A o \in RanOutputs :
    LET result == compute(o, 1).val IN
      /\ result.t \in {"int", "float"} => text[o] = "OUTPUT\n" \o Fixed2(result.v)
      /\ result.t = "str" => text[o] = "OUTPUT\n" \o result.v
      /\ result.t = "bool" => text[o] = "OUTPUT\n" \o (IF result.v THEN "True" ELSE "False")

\* C13: saving the value dialog of an INPUT node with type Integer or Float
\* and a text that does not parse ("abc", "Yes") shows the error and leaves
\* every node's value and data type as they were, whatever type the node had;
\* with a text that parses (" 10 ") the node gets the value 10 of the selected
\* type and the selected type together.
CoercionFailureKeepsValue ==
  [][last'.op = "save_input" =>
       \A self \in Registry, selected_type \in {"Integer", "Float"}, entry_text \in EntryTexts :
         save_input(self, selected_type, entry_text) =>
           /\ entry_text \in {"abc", "Yes"} =>
                /\ UNCHANGED <<value, data_type>>
                /\ last'.res = "ValueError"
                /\ dialogs' = <<"Please enter a valid " \o selected_type \o " value">>
           /\ entry_text = " 10 " =>
                /\ value'[self] = (IF selected_type = "Integer" THEN IntV(10) ELSE FloatV(10))
                /\ data_type'[self] = selected_type
                /\ last'.res = "ok"]_vars

\* C13 witness: Integer was just refused for an INPUT node that holds a Text
\* value, which it keeps with its type (every INPUT node of the registry
\* holds one, so the node of the dialog does).
CoercionFailureKeepsValueWitness ==
  /\ last = [op |-> "save_input", res |-> "ValueError"]
  /\ dialogs = <<"Please enter a valid Integer value">>
  /\ \E n \in Registry : node_type[n] = NODE_INPUT
  /\ \A n \in Registry :
       node_type[n] = NODE_INPUT => data_type[n] = "Text" /\ value[n] = StrV("abc")

\* C14: a run of the flow (the step that records execute_flow in `last`)
\* leaves the registry, the connection list and every node's value, data
\* type, code, inputs and outputs unchanged, and a run that directly follows
\* a run shows the same texts and the same message boxes and makes the same
\* compute calls.
EvaluationLeavesGraph ==
  [][last'.op = "execute_flow" =>
       /\ UNCHANGED <<nodes, connections, node_type, data_type, value, custom_code,
                      inputs, outputs>>
       /\ last.op = "execute_flow" => UNCHANGED <<text, dialogs, computed, last>>]_vars

\* C14 witness: a run displayed the result of a LOGIC node's code.
EvaluationLeavesGraphWitness ==
  \E o \in RanOutputs :
    /\ inputs[o] # <<>>
    /\ node_type[inputs[o][1]] = NODE_LOGIC
    /\ text[o] = "OUTPUT\n5.00"

\* C15: after a run on a registry without OUTPUT nodes the warning is the one
\* message box shown and compute was called on no node, whatever INPUT and
\* LOGIC nodes and connections there are.
EmptyRunComputesNothing ==
  (last.op = "execute_flow" /\ \A n \in Registry : node_type[n] # NODE_OUTPUT) =>
    /\ last.res = "warning"
    /\ dialogs = <<"No output nodes in the flow">>
    /\ computed = <<>>

\* C15 witness: the warning was just shown for a registry that holds a LOGIC
\* node with code and a connection into it.
EmptyRunComputesNothingWitness ==
  /\ last = [op |-> "execute_flow", res |-> "warning"]
  /\ \E l \in Registry :
       /\ node_type[l] = NODE_LOGIC
       /\ custom_code[l] = StrV(CodeConst)
       /\ \E i \in Registry : InSeq(Conn(i, l), connections)

\* C16: after a run, every OUTPUT node of the registry whose inputs list is
\* empty shows N/A, and its computation showed no message box.
NoInputOutput ==
  \A o \in RanOutputs :
    inputs[o] = <<>> =>
      /\ text[o] = "OUTPUT\nN/A"
      /\ compute(o, 1).dialogs = <<>>

\* C16 witness: a run in which another output reported a failure displayed
\* N/A for an OUTPUT node without inputs.
NoInputOutputWitness ==
  /\ dialogs # <<>>
  /\ \E o \in RanOutputs : inputs[o] = <<>> /\ text[o] = "OUTPUT\nN/A"

RECURSIVE UpstreamClosure(_)
\* The nodes reachable from the nodes of S through inputs lists, S included.
UpstreamClosure(S) ==
  LET T == S \cup {m \in Objs : \E n \in S : InSeq(m, inputs[n])} IN
    IF T = S THEN S ELSE UpstreamClosure(T)

\* Whether node n is on a directed cycle of inputs references.
OnCycle(n) == n \in UpstreamClosure({m \in Objs : InSeq(m, inputs[n])})

\* Whether a directed cycle is reachable upstream from an OUTPUT node of the
\* registry.
CycleUpstream ==
  \E n \in UpstreamClosure({o \in Registry : node_type[o] = NODE_OUTPUT}) : OnCycle(n)

RECURSIVE ComputedInOrder(_)
\* The compute calls of a run that takes the output nodes one by one, each
\* once, in the order of the list.
ComputedInOrder(output_nodes) ==
  IF output_nodes = <<>> THEN <<>>
  ELSE compute(Head(output_nodes), 1).computed \o ComputedInOrder(Tail(output_nodes))

\* C20: a run on a graph in which no directed cycle is reachable upstream
\* from an OUTPUT node ends normally (no RecursionError), its loop having
\* computed and displayed every OUTPUT node of the registry exactly once, in
\* registry order: the compute calls of the run are those of the first
\* output, then those of the second, and so on.
TerminatesOnAcyclic ==
  (last.op = "execute_flow" /\ ~CycleUpstream) =>
    LET output_nodes == SelectSeq(nodes, LAMBDA n : node_type[n] = NODE_OUTPUT) IN
      /\ last.res = (IF output_nodes = <<>> THEN "warning" ELSE "done")
      /\ computed = ComputedInOrder(output_nodes)
      /\ \A i \in 1..Len(output_nodes) :
           text[output_nodes[i]] = display_text(compute(output_nodes[i], 1).val)

\* C20 witness: a run over two OUTPUT nodes, one of them with an upstream
\* node, ended normally on a graph without a cycle upstream of an output.
TerminatesOnAcyclicWitness ==
  /\ last = [op |-> "execute_flow", res |-> "done"]
  /\ ~CycleUpstream
  /\ Cardinality(RanOutputs) = 2
  /\ Len(computed) >= 3

----------------------------------------------------------------------------
\* Further properties of the graph-editing handlers (checked under SpecGraph).

\* C17: delete_node on a node object that is no longer in the registry ends
\* without an error and leaves the registry, the connection list, the lines
\* and every node's inputs and outputs as the first call left them.
DeleteNodeIdempotent ==
  [][\A n \in Objs \ Registry :
       delete_node(n) =>
         /\ last'.res = "absent"
         /\ UNCHANGED <<nodes, connections, lines, inputs, outputs>>]_vars

\* C17 witness: delete_node was just called on a removed node while other
\* nodes and a connection between them remain.
DeleteNodeIdempotentWitness ==
  /\ last = [op |-> "delete_node", res |-> "absent"]
  /\ Len(nodes) >= 2
  /\ Len(connections) >= 1

\* C18: with the connections A -> B and B -> C in the list, completing a
\* connection from C to A, for a pair C, A not yet related and A not an
\* OUTPUT node that has an input, is accepted: the connection C -> A is
\* appended and the cycle A -> B -> C -> A is in the graph.
LongerCycleAccepted ==
  [][\A a \in Registry, b \in Registry, c \in Registry :
       (/\ a # b /\ b # c /\ a # c
        /\ InSeq(Conn(a, b), connections)
        /\ InSeq(Conn(b, c), connections)
        /\ ~InSeq(a, outputs[c]) /\ ~InSeq(c, inputs[a])
        /\ ~(node_type[a] = NODE_OUTPUT /\ Len(inputs[a]) >= 1)
        /\ complete_connection(c, a)) =>
         /\ last'.res = "connected"
         /\ connections' = Append(connections, Conn(c, a))
         /\ outputs'[c] = Append(outputs[c], a)
         /\ inputs'[a] = Append(inputs[a], c)]_vars

\* C18 witness: the connection that closes a cycle of three nodes was just
\* accepted.
LongerCycleAcceptedWitness ==
  /\ last = [op |-> "complete_connection", res |-> "connected"]
  /\ \E a \in Registry, b \in Registry, c \in Registry :
       /\ a # b /\ b # c /\ a # c
       /\ InSeq(Conn(a, b), connections)
       /\ InSeq(Conn(b, c), connections)
       /\ connections[Len(connections)] = Conn(c, a)

====
